---- MODULE Spec2Model ----
(***************************************************************************)
(* Model of the translate/beautify command line tool.                      *)
(*                                                                         *)
(* The repository holds two variants of the program:                       *)
(*   variant 1 = src/beauti.py          (no -g option, fixed prompts)      *)
(*   variant 2 = src/scripts/beauti.py  (-g option, _create_prompt)        *)
(* Line numbers in comments refer to src/scripts/beauti.py unless a        *)
(* comment says "variant 1".                                               *)
(*                                                                         *)
(* Texts are sequences of Unicode code points.  Optional values (None in   *)
(* Python, an unset environment variable) are sequences of length 0 or 1:  *)
(* <<>> is "absent", <<v>> is "present with value v".                      *)
(***************************************************************************)
EXTENDS Integers, Sequences, FiniteSets, TLC

VARIABLES variant, args, env, pc, trans, eng, calls, logs, detected, loads, err

vars == <<variant, args, env, pc, trans, eng, calls, logs, detected, loads, err>>

(* ---------------------------- bounds ----------------------------------- *)

\* largest number of positional words on the command line
MaxWords == 2

\* longest single word given to the detector in SpecLang
MaxLangLen == 2

(* ------------------------- input universes ----------------------------- *)

\* words of the command line: "", "你", "a", "1", "你a"
Words == { <<>>, <<20320>>, <<97>>, <<49>>, <<20320, 97>> }

\* code points around every boundary of the two character classes
LangAlphabet == { 19967, 19968, 40959, 40960, 64, 65, 90, 91, 96, 97, 122, 123, 48 }

Contents == UNION { [1..n -> Words] : n \in 1..MaxWords }

RECURSIVE SeqsUpTo(_, _)
SeqsUpTo(S, n) ==
  IF n = 0 THEN { <<>> }
  ELSE LET shorter == SeqsUpTo(S, n - 1)
       IN  shorter \cup { Append(s, c) : s \in { t \in shorter : Len(t) = n - 1 }, c \in S }

LangWords == SeqsUpTo(LangAlphabet, MaxLangLen)

None == <<>>
Some(v) == <<v>>

\* an environment: whether load_dotenv() reports success, and the two
\* variables as the process sees them (absent, empty, or set)
Envs == [ dotenv : BOOLEAN,
          GLM_API : { None, Some(""), Some("sk-key") },
          API_URL : { None, Some(""), Some("https://api") } ]

\* "Hi" and "No response." as reply texts of the remote service
ReplyHi == <<72, 105>>
NoResponseText == <<78, 111, 32, 114, 101, 115, 112, 111, 110, 115, 101, 46>>

Choice(content) == [ message |-> [ content |-> content ] ]

\* chat completion responses: no choices, content None, content "",
\* one reply, several choices, a reply that is Chinese text
Responses == { [ choices |-> <<>> ],
               [ choices |-> << Choice(None) >> ],
               [ choices |-> << Choice(Some(<<>>)) >> ],
               [ choices |-> << Choice(Some(ReplyHi)) >> ],
               [ choices |-> << Choice(Some(<<20320>>)), Choice(Some(ReplyHi)) >> ] }

(* --------------------------- load_env ---------------------------------- *)

\* os.getenv(var, "")
getenv(e, var) == IF e[var] = None THEN "" ELSE e[var][1]

RequiredVars == << "GLM_API", "API_URL" >>

\* ', '.join(names), as the sequence of its pieces
RECURSIVE join(_, _)
join(sep, names) ==
  IF names = <<>> THEN <<>>
  ELSE IF Len(names) = 1 THEN << names[1] >>
  ELSE << names[1], sep >> \o join(sep, Tail(names))

\* load_env reporting only the first missing variable
load_env_first_only(e) ==
  IF ~e.dotenv
  THEN [ raised |-> TRUE,
         exc |-> [ type |-> "EnvironmentVariableError",
                   msg |-> << "No .env file found.Please create one with the required environment variables." >> ] ]
  ELSE LET env_vars == [ var \in { "GLM_API", "API_URL" } |-> getenv(e, var) ]
           missing_vars == SelectSeq(RequiredVars, LAMBDA var : env_vars[var] = "")
       IN  IF missing_vars # <<>>
           THEN [ raised |-> TRUE,
                  exc |-> [ type |-> "EnvironmentVariableError",
                            msg |-> << "Missing environment variables: " >> \o << missing_vars[1] >> ] ]
           ELSE [ raised |-> FALSE,
                  value |-> [ GLM_API |-> env_vars["GLM_API"], API_URL |-> env_vars["API_URL"], model |-> "glm4" ] ]

\* load_env ignoring the result of load_dotenv()
load_env_no_file_check(e) ==
  LET env_vars == [ var \in { "GLM_API", "API_URL" } |-> getenv(e, var) ]
      missing_vars == SelectSeq(RequiredVars, LAMBDA var : env_vars[var] = "")
  IN  IF missing_vars # <<>> /\ e.dotenv
      THEN [ raised |-> TRUE,
             exc |-> [ type |-> "EnvironmentVariableError",
                       msg |-> << "Missing environment variables: " >> \o join(", ", missing_vars) ] ]
      ELSE [ raised |-> FALSE,
             value |-> [ GLM_API |-> env_vars["GLM_API"], API_URL |-> env_vars["API_URL"], model |-> "glm4" ] ]

\* lines 20-37: the result is either a raised exception or the mapping
load_env(e) ==
  IF ~e.dotenv
  THEN [ raised |-> TRUE,
         exc |-> [ type |-> "EnvironmentVariableError",
                   msg |-> << "No .env file found.Please create one with the required environment variables." >> ] ]
  ELSE LET env_vars == [ var \in { "GLM_API", "API_URL" } |-> getenv(e, var) ]
           missing_vars == SelectSeq(RequiredVars, LAMBDA var : env_vars[var] = "")
       IN  IF missing_vars # <<>>
           THEN [ raised |-> TRUE,
                  exc |-> [ type |-> "EnvironmentVariableError",
                            msg |-> << "Missing environment variables: " >> \o join(", ", missing_vars) ] ]
           ELSE [ raised |-> FALSE,
                  value |-> [ GLM_API |-> env_vars["GLM_API"], API_URL |-> env_vars["API_URL"], model |-> "glm4" ] ]

(* ------------------------- check_language ------------------------------ *)

\* the character class [一-鿿]
CJKClass == 19968..40959

\* the character class [a-zA-Z]
LetterClass == (97..122) \cup (65..90)

\* re.search with a one-character class: scan from position i for a match
RECURSIVE re_search(_, _, _)
re_search(class, s, i) ==
  IF i > Len(s) THEN FALSE
  ELSE IF s[i] \in class THEN TRUE
  ELSE re_search(class, s, i + 1)

\* check_language testing for letters before ideographs
check_language_letters_first(s) ==
  IF re_search(LetterClass, s, 1) THEN "English"
  ELSE IF re_search(CJKClass, s, 1) THEN "Chinese"
  ELSE "Unknown"

\* lines 40-46
check_language(s) ==
  IF re_search(CJKClass, s, 1) THEN "Chinese"
  ELSE IF re_search(LetterClass, s, 1) THEN "English"
  ELSE "Unknown"

(* --------------------------- prompts ----------------------------------- *)

GithubClause == ", especially have experience in writing Github user friendly sentence."

UserClause == " the following text, to improve clarity, conciseness, and coherence, making them match the expression of native speakers.\n\n"

TranslateTask == "please translate directly without explanation"

BeautifyTask == "please rewrite the text directly without explanation"

\* str.capitalize() on the two task descriptions (all lower case already,
\* so only the first letter changes)
capitalize(task) ==
  CASE task = TranslateTask -> "Please translate directly without explanation"
    [] task = BeautifyTask -> "Please rewrite the text directly without explanation"

\* lines 82-97: a prompt is the pieces of the system string, the pieces of
\* the user instruction, and the subject text appended to it
create_prompt(role, task, text, for_git) ==
  [ system |-> IF for_git THEN << "You are an expert ", role, GithubClause >>
                          ELSE << "You are an expert ", role >>,
    user |-> [ instruction |-> << capitalize(task), UserClause >>, text |-> text ] ]

\* lines 99-106 (variant 1: lines 82-96 of src/beauti.py)
translate_prompt(v, text, for_git) ==
  IF v = 2
  THEN create_prompt("translator", TranslateTask, text, for_git)
  ELSE [ system |-> << "You are an expert translator,translate directly without explanation." >>,
         user |-> [ instruction |-> << "Translate the following Chinese text to English,to improve clarity, conciseness, and coherence,making them match the expression of native speakers.\n\n" >>,
                    text |-> text ] ]

\* lines 109-116 (variant 1: lines 98-109 of src/beauti.py)
beautify_prompt(v, text, for_git) ==
  IF v = 2
  THEN create_prompt("writer", BeautifyTask, text, for_git)
  ELSE [ system |-> << "You are an expert writer, rewrite the text." >>,
         user |-> [ instruction |-> << "Beautify the following English text,to improve clarity, conciseness, and coherence,making them match the expression of native speakers. \n\n" >>,
                    text |-> text ] ]

(* ------------------------ TextTransformer ------------------------------ *)

\* lines 52-59: the client built from a loaded configuration
TextTransformer(env_vars) ==
  [ env_vars |-> env_vars,
    model |-> env_vars.model,
    client |-> [ api_key |-> env_vars.GLM_API, base_url |-> env_vars.API_URL ] ]

\* lines 63-76: the chat completion request _process_text sends
chat_request(t, prompt) ==
  [ model |-> t.model,
    messages |-> << [ role |-> "system", content |-> prompt.system ],
                    [ role |-> "user", content |-> prompt.user ] >> ]

\* lines 78-80: what _process_text makes of the response.  Variant 1 reads
\* response.choices[0] without looking at the length of the list.
process_response(v, response) ==
  IF v = 2
  THEN IF response.choices # <<>>
          /\ response.choices[1].message.content # None
          /\ response.choices[1].message.content[1] # <<>>
       THEN [ raised |-> FALSE, value |-> response.choices[1].message.content[1] ]
       ELSE [ raised |-> FALSE, value |-> NoResponseText ]
  ELSE IF response.choices = <<>>
       THEN [ raised |-> TRUE, exc |-> [ type |-> "IndexError", msg |-> << "list index out of range" >> ] ]
       ELSE LET response_text == response.choices[1].message.content
            IN  IF response_text # None /\ response_text[1] # <<>>
                THEN [ raised |-> FALSE, value |-> response_text[1] ]
                ELSE [ raised |-> FALSE, value |-> NoResponseText ]

(* ----------------------------- logging --------------------------------- *)

\* logging.info(msg, *args)
info(msg, a) == [ level |-> "INFO", msg |-> msg, args |-> a ]

UsageHint == info("Please specify an action. Use -h for help.", <<>>)

TranslateHint == info("Please provide Chinese text to translate.If want to beauty English, use -b.", <<>>)

BeautifyHint == info("Please provide English text to beautify.If want to translate Chinese, use -t.", <<>>)

ResultLine(t) == info("%s", << t >>)

(* ------------------------------ state ---------------------------------- *)

\* " ".join(args.content)
RECURSIVE join_words(_)
join_words(content) ==
  IF Len(content) = 1 THEN content[1]
  ELSE content[1] \o << 32 >> \o join_words(Tail(content))

\* line 171
text == join_words(args.content)

\* line 178: the style flag main hands to both handlers (variant 1 has no
\* -g option; its args.github is always FALSE and its prompts ignore it)
for_git_handler_default == TRUE

for_git == args.github

\* a remote request that has been sent and not yet answered
NewCall(request) == [ request |-> request, response |-> None, result |-> None, exc |-> None ]

InFlight(c) == c.response = None /\ c.exc = None

\* the last call, completed in one of the three possible ways
Returned(response, value) ==
  [ calls EXCEPT ![Len(calls)].response = Some(response), ![Len(calls)].result = Some(value) ]

RaisedIn(response, type) ==
  [ calls EXCEPT ![Len(calls)].response = Some(response), ![Len(calls)].exc = Some(type) ]

TransportFailed == [ calls EXCEPT ![Len(calls)].exc = Some("APIError") ]

ArgsOf(v) ==
  { a \in [ content : Contents, translate : BOOLEAN, beautify : BOOLEAN, github : BOOLEAN ] :
      v = 1 => ~a.github }

Init ==
  /\ variant \in { 1, 2 }
  /\ args \in ArgsOf(variant)
  /\ env \in Envs
  /\ pc = "main"
  /\ trans = None
  /\ eng = None
  /\ calls = <<>>
  /\ logs = <<>>
  /\ detected = <<>>
  /\ loads = 0
  /\ err = None

(* ------------------------------- main ---------------------------------- *)

\* lines 179-182: where main goes once the client exists
AfterConstruct ==
  IF args.translate THEN "handle_translation"
  ELSE IF args.beautify THEN "handle_beautification"
  ELSE "done"

\* lines 181-182: where main goes when handle_translation has returned
AfterTranslation == IF args.beautify THEN "handle_beautification" ELSE "done"

\* main building the client before it looks at the flags
MainClientFirst ==
  /\ pc = "main"
  /\ loads' = loads + 1
  /\ LET r == load_env(env)
     IN  IF r.raised
         THEN /\ err' = Some(r.exc)
              /\ pc' = "error"
              /\ UNCHANGED << trans, logs >>
         ELSE /\ trans' = Some(TextTransformer(r.value))
              /\ IF ~args.translate /\ ~args.beautify
                 THEN logs' = Append(logs, UsageHint) /\ pc' = "done"
                 ELSE logs' = logs /\ pc' = AfterConstruct
              /\ UNCHANGED err
  /\ UNCHANGED << variant, args, env, eng, calls, detected >>

\* lines 168-177: parse, usage hint or construction of the client
Main ==
  /\ pc = "main"
  /\ IF ~args.translate /\ ~args.beautify
     THEN /\ logs' = Append(logs, UsageHint)
          /\ pc' = "done"
          /\ UNCHANGED << trans, loads, err >>
     ELSE /\ loads' = loads + 1
          /\ LET r == load_env(env)
             IN  IF r.raised
                 THEN /\ err' = Some(r.exc)
                      /\ pc' = "error"
                      /\ UNCHANGED trans
                 ELSE /\ trans' = Some(TextTransformer(r.value))
                      /\ pc' = AfterConstruct
                      /\ UNCHANGED err
          /\ UNCHANGED logs
  /\ UNCHANGED << variant, args, env, eng, calls, detected >>

(* ------------------------ handle_translation --------------------------- *)

\* the translate gate letting everything but English through
TranslateGateNotEnglish(lang) == lang # "English"

\* line 143
TranslateGate(lang) == lang = "Chinese"

\* lines 139-151 up to the point where the translate request is sent
HandleTranslation ==
  /\ pc = "handle_translation"
  /\ LET lang == check_language(text)
     IN  /\ detected' = Append(detected, lang)
         /\ IF TranslateGate(lang)
            THEN /\ calls' = Append(calls, NewCall(chat_request(trans[1], translate_prompt(variant, text, for_git))))
                 /\ pc' = "translate_wait"
                 /\ UNCHANGED logs
            ELSE /\ logs' = Append(logs, TranslateHint)
                 /\ pc' = AfterTranslation
                 /\ UNCHANGED calls
  /\ UNCHANGED << variant, args, env, trans, eng, loads, err >>

\* lines 144-146: the translate request returns; its result is logged and
\* the beautify request on that result is sent
TranslateReturn ==
  /\ pc = "translate_wait"
  /\ \E response \in Responses :
       LET out == process_response(variant, response)
       IN  IF out.raised
           THEN /\ calls' = RaisedIn(response, out.exc.type)
                /\ err' = Some(out.exc)
                /\ pc' = "error"
                /\ UNCHANGED << eng, logs >>
           ELSE /\ eng' = Some(out.value)
                /\ logs' = Append(logs, ResultLine(out.value))
                /\ calls' = Append(Returned(response, out.value),
                                   NewCall(chat_request(trans[1], beautify_prompt(variant, out.value, for_git))))
                /\ pc' = "chain_beautify_wait"
                /\ UNCHANGED err
  /\ UNCHANGED << variant, args, env, trans, detected, loads >>

\* line 146: the chained beautify request returns and its result is logged
ChainBeautifyReturn ==
  /\ pc = "chain_beautify_wait"
  /\ \E response \in Responses :
       LET out == process_response(variant, response)
       IN  IF out.raised
           THEN /\ calls' = RaisedIn(response, out.exc.type)
                /\ err' = Some(out.exc)
                /\ pc' = "error"
                /\ UNCHANGED logs
           ELSE /\ logs' = Append(logs, ResultLine(out.value))
                /\ calls' = Returned(response, out.value)
                /\ pc' = AfterTranslation
                /\ UNCHANGED err
  /\ UNCHANGED << variant, args, env, trans, eng, detected, loads >>

(* ----------------------- handle_beautification ------------------------- *)

\* the beautify gate turning away only text without any letters
BeautifyGateNotUnknown(lang) == lang # "Unknown"

\* line 159
BeautifyGate(lang) == lang = "English"

\* lines 154-165 up to the point where the beautify request is sent
HandleBeautification ==
  /\ pc = "handle_beautification"
  /\ LET lang == check_language(text)
     IN  /\ detected' = Append(detected, lang)
         /\ IF BeautifyGate(lang)
            THEN /\ calls' = Append(calls, NewCall(chat_request(trans[1], beautify_prompt(variant, text, for_git))))
                 /\ pc' = "beautify_wait"
                 /\ UNCHANGED logs
            ELSE /\ logs' = Append(logs, BeautifyHint)
                 /\ pc' = "done"
                 /\ UNCHANGED calls
  /\ UNCHANGED << variant, args, env, trans, eng, loads, err >>

\* line 160: the beautify request returns and its result is logged
BeautifyReturn ==
  /\ pc = "beautify_wait"
  /\ \E response \in Responses :
       LET out == process_response(variant, response)
       IN  IF out.raised
           THEN /\ calls' = RaisedIn(response, out.exc.type)
                /\ err' = Some(out.exc)
                /\ pc' = "error"
                /\ UNCHANGED logs
           ELSE /\ logs' = Append(logs, ResultLine(out.value))
                /\ calls' = Returned(response, out.value)
                /\ pc' = "done"
                /\ UNCHANGED err
  /\ UNCHANGED << variant, args, env, trans, eng, detected, loads >>

(* ------------------------- failing requests ---------------------------- *)

Waiting == pc \in { "translate_wait", "chain_beautify_wait", "beautify_wait" }

\* a failed request sent a second time instead of being given up
RequestFailsRetried ==
  /\ Waiting
  /\ IF Len(calls) < 4
     THEN /\ calls' = Append(TransportFailed, NewCall(calls[Len(calls)].request))
          /\ UNCHANGED << pc, err >>
     ELSE /\ calls' = TransportFailed
          /\ err' = Some([ type |-> "APIError", msg |-> << "request failed" >> ])
          /\ pc' = "error"
  /\ UNCHANGED << variant, args, env, trans, eng, logs, detected, loads >>

\* line 70: client.chat.completions.create raises; nothing in the program
\* catches it, so it leaves _process_text, the handler and main
RequestFails ==
  /\ Waiting
  /\ calls' = TransportFailed
  /\ err' = Some([ type |-> "APIError", msg |-> << "request failed" >> ])
  /\ pc' = "error"
  /\ UNCHANGED << variant, args, env, trans, eng, logs, detected, loads >>

Next ==
  \/ Main
  \/ HandleTranslation
  \/ TranslateReturn
  \/ ChainBeautifyReturn
  \/ HandleBeautification
  \/ BeautifyReturn
  \/ RequestFails

Spec == Init /\ [][Next]_vars

\* the detector on words made of code points at the edges of its classes
InitLang ==
  /\ variant \in { 1, 2 }
  /\ args \in { a \in [ content : { << w >> : w \in LangWords }, translate : BOOLEAN,
                        beautify : BOOLEAN, github : BOOLEAN ] : variant = 1 => ~a.github }
  /\ env = [ dotenv |-> TRUE, GLM_API |-> Some("sk-key"), API_URL |-> Some("https://api") ]
  /\ pc = "main"
  /\ trans = None
  /\ eng = None
  /\ calls = <<>>
  /\ logs = <<>>
  /\ detected = <<>>
  /\ loads = 0
  /\ err = None

SpecLang == InitLang /\ [][Next]_vars

Terminated == pc \in { "done", "error" }

TypeOK ==
  /\ pc \in { "main", "handle_translation", "translate_wait", "chain_beautify_wait",
              "handle_beautification", "beautify_wait", "done", "error" }
  /\ Len(calls) <= 3
  /\ loads \in 0..1

(* ------------------- vocabulary of the properties ---------------------- *)

\* some code point of s lies in U+4E00..U+9FFF
ContainsCJK(s) == \E i \in 1..Len(s) : s[i] \in 19968..40959

\* some code point of s is one of A..Z, a..z
ContainsLetter(s) == \E i \in 1..Len(s) : s[i] \in (65..90) \cup (97..122)

ActionRequested == args.translate \/ args.beautify

MissingVars == { var \in { "GLM_API", "API_URL" } : env[var] \in { None, Some("") } }

ConfigValid == env.dotenv /\ MissingVars = {}

ConfigErrorRaised == err # None /\ err[1].type = "EnvironmentVariableError"

TransportFailure(c) == c.exc = Some("APIError")

NoTransportFailure == \A i \in 1..Len(calls) : ~TransportFailure(calls[i])

IsResultLine(l) == l.msg = "%s"

HasGithubClause(system) == \E k \in 1..Len(system) : system[k] = GithubClause

\* the first choice of the response has no usable content
EmptyReply(response) ==
  \/ response.choices = <<>>
  \/ response.choices[1].message.content = None
  \/ response.choices[1].message.content = Some(<<>>)

(* ------------------------------- C1 ------------------------------------ *)

\* C1: with -t, without -b, on text detected as Chinese, a run whose
\* configuration loads and whose requests are all answered by the service
\* ends having issued exactly two requests, the translate request on the
\* input text and then the beautify request on the text translate returned,
\* and having logged exactly the two results in that order.
C1_TranslateThenBeautify ==
  ( /\ Terminated
    /\ args.translate /\ ~args.beautify
    /\ ContainsCJK(text)
    /\ ConfigValid
    /\ NoTransportFailure )
  => /\ Len(calls) = 2
     /\ calls[1].request = chat_request(trans[1], translate_prompt(variant, text, args.github))
     /\ calls[1].result # None
     /\ calls[2].request = chat_request(trans[1], beautify_prompt(variant, calls[1].result[1], args.github))
     /\ calls[2].result # None
     /\ logs = << ResultLine(calls[1].result[1]), ResultLine(calls[2].result[1]) >>

(* ------------------------------- C2 ------------------------------------ *)

\* C2: every response the service gives is turned into a returned value,
\* never into an exception: "No response." when there are no choices or the
\* first choice has no or empty content, the first choice's content otherwise.
C2_FallbackOrVerbatim ==
  \A i \in 1..Len(calls) :
    calls[i].response # None =>
      /\ calls[i].exc = None
      /\ calls[i].result =
           Some(IF EmptyReply(calls[i].response[1])
                THEN NoResponseText
                ELSE calls[i].response[1].choices[1].message.content[1])

(* ------------------------------- C3 ------------------------------------ *)

\* C3: with neither -t nor -b, main never calls the configuration loader,
\* never builds the client, sends no request and raises nothing; once it has
\* run it has returned and has logged the usage hint and nothing else.
C3_NoActionNoClient ==
  ~ActionRequested =>
    /\ loads = 0
    /\ trans = None
    /\ calls = <<>>
    /\ err = None
    /\ pc \in { "main", "done" }
    /\ logs = IF pc = "main" THEN <<>> ELSE << UsageHint >>

C3_Witness ==
  /\ ~ActionRequested
  /\ pc = "done"
  /\ ~ConfigValid
  /\ logs = << UsageHint >>

(* ------------------------------- C4 ------------------------------------ *)

\* C4: whatever the flags and the text, at most two requests are sent, and
\* every request but the latest has already come back.
C4_AtMostTwoSequential ==
  /\ Len(calls) <= 2
  /\ \A i \in 1..(Len(calls) - 1) : ~InFlight(calls[i])

C4_Witness ==
  /\ args.translate /\ args.beautify
  /\ pc = "done"
  /\ Len(calls) = 2
  /\ calls[2].result # None

(* ------------------------------- C5 ------------------------------------ *)

\* C5: the translate gate on text that is not Chinese, and the beautify gate
\* on text that is not English, send no request and log exactly their hint;
\* with -b alone and Chinese text no request is ever sent.
C5_MismatchHintOnly ==
  /\ [][ /\ (pc = "handle_translation" /\ ~ContainsCJK(text))
              => (calls' = calls /\ logs' = Append(logs, TranslateHint))
         /\ (pc = "handle_beautification" /\ (ContainsCJK(text) \/ ~ContainsLetter(text)))
              => (calls' = calls /\ logs' = Append(logs, BeautifyHint)) ]_vars
  /\ []( (args.beautify /\ ~args.translate /\ ContainsCJK(text)) => calls = <<>> )

C5_Witness ==
  /\ args.beautify /\ ~args.translate
  /\ ContainsCJK(text)
  /\ pc = "done"
  /\ calls = <<>>
  /\ logs = << BeautifyHint >>

(* ------------------------------- C6 ------------------------------------ *)

\* C6: with a flag set and an invalid configuration, main ends in the
\* configuration error with no request sent, no line logged and the language
\* of the text never looked at.
C6_ConfigErrorFirst ==
  ( ActionRequested /\ ~ConfigValid /\ pc # "main" ) =>
    /\ pc = "error"
    /\ ConfigErrorRaised
    /\ calls = <<>>
    /\ logs = <<>>
    /\ detected = <<>>

C6_Witness ==
  /\ args.beautify /\ ~args.translate
  /\ ContainsCJK(text)
  /\ ~env.dotenv /\ MissingVars = {}
  /\ pc = "error"
  /\ ConfigErrorRaised

(* ------------------------------- C7 ------------------------------------ *)

\* C7: when the environment file is found, the loader fails exactly when
\* GLM_API or API_URL is missing or empty; the message then names every
\* missing one; on success the mapping holds both values, non-empty, and
\* the model name glm4.
C7_LoadEnv ==
  ( env.dotenv /\ loads = 1 ) =>
    /\ ConfigErrorRaised <=> MissingVars # {}
    /\ ConfigErrorRaised =>
         \A var \in MissingVars : \E k \in 1..Len(err[1].msg) : err[1].msg[k] = var
    /\ ~ConfigErrorRaised =>
         /\ trans # None
         /\ trans[1].env_vars = [ GLM_API |-> env.GLM_API[1], API_URL |-> env.API_URL[1], model |-> "glm4" ]
         /\ trans[1].env_vars.GLM_API # ""
         /\ trans[1].env_vars.API_URL # ""

C7_Witness ==
  /\ env.dotenv /\ loads = 1
  /\ MissingVars = { "GLM_API", "API_URL" }
  /\ ConfigErrorRaised
  /\ pc = "error"

(* ------------------------------- C8 ------------------------------------ *)

\* C8: the detector answers Chinese when the text has a code point in
\* U+4E00..U+9FFF, letters or not; otherwise English when it has an ASCII
\* letter; otherwise Unknown.
C8_CheckLanguage ==
  \A i \in 1..Len(detected) :
    detected[i] = IF ContainsCJK(text) THEN "Chinese"
                  ELSE IF ContainsLetter(text) THEN "English"
                  ELSE "Unknown"

C8_Witness ==
  /\ detected # <<>>
  /\ ContainsCJK(text) /\ ContainsLetter(text)
  /\ detected[1] = "Chinese"

(* ------------------------------- C9 ------------------------------------ *)

\* C9: a request that fails is the last request of the run: it is not sent
\* again, no request follows it, main ends in that error, and the result
\* lines logged are exactly those of the requests answered before it.
C9_FailurePropagates ==
  \A i \in 1..Len(calls) :
    TransportFailure(calls[i]) =>
      /\ i = Len(calls)
      /\ pc = "error"
      /\ err # None /\ err[1].type = "APIError"
      /\ \A j \in 1..(i - 1) : calls[j].result # None /\ calls[j].request # calls[i].request
      /\ SelectSeq(logs, IsResultLine) = [ j \in 1..(i - 1) |-> ResultLine(calls[j].result[1]) ]

C9_Witness ==
  /\ args.translate
  /\ ContainsCJK(text)
  /\ pc = "error"
  /\ Len(calls) = 1
  /\ TransportFailure(calls[1])
  /\ logs = <<>>

(* ------------------------------- C10 ----------------------------------- *)

\* C10: in the variant with -g, the system instruction of every request
\* has the Github clause exactly when -g was given, so the translate request
\* and the chained beautify request are built with the same style flag.
C10_StyleFlagFollowsOption ==
  variant = 2 =>
    \A i \in 1..Len(calls) :
      HasGithubClause(calls[i].request.messages[1].content) <=> args.github

C10_Witness ==
  /\ variant = 2
  /\ ~args.github
  /\ pc = "done"
  /\ Len(calls) = 2
  /\ ~HasGithubClause(calls[1].request.messages[1].content)
  /\ ~HasGithubClause(calls[2].request.messages[1].content)

====
